---------------------------- MODULE Spec2Model ----------------------------
(***************************************************************************)
(* The sales pipeline of airflow_data/dags/sales_pipeline.py: twelve       *)
(* PythonOperator tasks of the DAG 'sales_pipeline', the relational store   *)
(* they read and write, and the three external sources (customer API,      *)
(* weather API, order file).                                                *)
(*                                                                         *)
(* A task's callable never yields and ends with its single write_to_db;    *)
(* every table has one writer and no table is written while a dependent    *)
(* reads it, so a task execution is one atomic step (RunTask).  Tasks with *)
(* no edge between them run in any order.  Runs of the DAG are taken one   *)
(* after another.                                                          *)
(*                                                                         *)
(* Columns that no callable computes on (customer name, geo coordinates,   *)
(* temperature, humidity, ...) are left out of the rows.                   *)
(***************************************************************************)
EXTENDS Integers, Sequences, FiniteSets, TLC

VARIABLES
    apiUsers,    \* ids of the users the customer API returns
    weatherOK,   \* customers whose weather lookup answers with status 200
    orderFile,   \* rows of sales_data.csv, in file order
    store,       \* the MySQL schema: table name -> [exists, rows]
    state,       \* task id -> state of its task instance in the current run
    triggered,   \* a DAG run has been triggered
    faultsLeft,  \* outages of the environment still to come
    execs,       \* task id -> executions of its callable in the current run
    prev         \* gold tables at the end of the previous run, if it succeeded

vars == <<apiUsers, weatherOK, orderFile, store, state, triggered, faultsLeft, execs, prev>>

(***************************************************************************)
(* Bounds of the model.                                                    *)
(***************************************************************************)
MaxOrders == 2
MaxFaults == 1

Customers == {1, 2}
Products == {1, 2}
Quantities == {1, 2}
UnitPrice == <<10, 5>>
GoodDate == <<2024, 2, 15>>
LateDate == <<2024, 11, 3>>
BadDate == <<2024, 13, 1>>
Dates == {GoodDate, LateDate, BadDate}
\* weather descriptions in alphabetical order; customer c gets the c-th
WeatherDescriptions == <<"clear sky", "light rain">>

(***************************************************************************)
(* Generic helpers.                                                        *)
(***************************************************************************)
Range(s) == {s[i] : i \in 1..Len(s)}

\* the elements of S in ascending order of rank[x], no two of equal rank
SortedSeq(S, rank) ==
    [k \in 1..Cardinality(S) |->
        CHOOSE x \in S : Cardinality({y \in S : rank[y] < rank[x]}) = k - 1]

RECURSIVE SumSeq(_)
SumSeq(s) == IF s = <<>> THEN 0 ELSE Head(s) + SumSeq(Tail(s))

RECURSIVE FlatMap(_, _)
\* concatenation of f[s[1]], f[s[2]], ...
FlatMap(s, f) == IF s = <<>> THEN <<>> ELSE f[Head(s)] \o FlatMap(Tail(s), f)

RECURSIVE GCD(_, _)
GCD(a, b) == IF b = 0 THEN a ELSE GCD(b, a % b)

Column(rows, col) == [i \in 1..Len(rows) |-> rows[i][col]]

(***************************************************************************)
(* The store and the Storage Gateway.                                      *)
(***************************************************************************)
GoldTables == {"gold_total_sales_by_customer", "gold_avg_order_quantity_per_product",
               "gold_top_selling_products", "gold_top_selling_customers",
               "gold_sales_trends_monthly", "gold_sales_trends_quarterly",
               "gold_sales_per_weather_condition"}

TABLES_TO_CREATE == {"bronze_customers", "bronze_orders", "bronze_weather", "silver_sales"}

Tables == TABLES_TO_CREATE \cup GoldTables

NoTable == [exists |-> FALSE, rows |-> <<>>]

\* the outcome of a callable that raised: the task fails, st is what it left
Raise(st) == [ok |-> FALSE, store |-> st]

Return(st) == [ok |-> TRUE, store |-> st]

\* if_exists='append': the rows are added to the table's
write_to_db_append(st, table, rows) ==
    [st EXCEPT ![table] = [exists |-> TRUE, rows |-> st[table].rows \o rows]]

\* df.to_sql(table, engine, if_exists='replace'): the table is dropped and
\* recreated from df
write_to_db(st, table, rows) ==
    [st EXCEPT ![table] = [exists |-> TRUE, rows |-> rows]]

\* pd.read_sql raises on a table that does not exist
CanLoad(st, table) == st[table].exists

load_from_db(st, table) == st[table].rows

(***************************************************************************)
(* Bronze layer.                                                           *)
(***************************************************************************)
\* requests.get(.../users) and pd.json_normalize: one row per user
fetch_users ==
    LET ids == SortedSeq(apiUsers, [c \in apiUsers |-> c])
    IN [i \in 1..Len(ids) |-> [id |-> ids[i]]]

\* pd.json_normalize([]) has no columns, and set_index(["id"]) raises KeyError
FetchTransformWrite(st) ==
    LET df == fetch_users
    IN IF df = <<>> THEN Raise(st)
       ELSE Return(write_to_db(st, "bronze_customers", df))

\* the response of the weather API with customer_id added, or None (<<>>)
get_weather(id) ==
    IF id \in weatherOK
    THEN <<[customer_id |-> id, weather_description |-> WeatherDescriptions[id]]>>
    ELSE <<>>

\* filter(None, ...) of the lookups; with no lookup left pd.json_normalize([])
\* has no columns and set_index(["customer_id"]) raises KeyError
FetchWeather(st) ==
    IF ~CanLoad(st, "bronze_customers") THEN Raise(st)
    ELSE LET df == load_from_db(st, "bronze_customers")
             weather_list1 == FlatMap(df, [r \in Range(df) |-> get_weather(r.id)])
         IN IF weather_list1 = <<>> THEN Raise(st)
            ELSE Return(write_to_db(st, "bronze_weather", weather_list1))

LoadCsv(st) == Return(write_to_db(st, "bronze_orders", orderFile))

TestConnection(st) == Return(st)

(***************************************************************************)
(* Silver layer.                                                           *)
(***************************************************************************)
SilverRow(o, w) ==
    [customer_id |-> o.customer_id, product_id |-> o.product_id,
     quantity |-> o.quantity, price |-> o.price, order_date |-> o.order_date,
     weather_description |-> w.weather_description]

\* bronze_orders o inner join bronze_customers c on c.id = o.customer_id
\*                 inner join bronze_weather w on w.customer_id = o.customer_id
InnerJoin(orders, customers, weather) ==
    LET C(o) == SelectSeq(customers, LAMBDA c : c.id = o.customer_id)
        W(o) == SelectSeq(weather, LAMBDA w : w.customer_id = o.customer_id)
        perCustomer(o) == FlatMap(W(o), [w \in Range(W(o)) |-> <<SilverRow(o, w)>>])
        perOrder(o) == FlatMap(C(o), [c \in Range(C(o)) |-> perCustomer(o)])
    IN FlatMap(orders, [o \in Range(orders) |-> perOrder(o)])

\* the rows of j without those whose (customer_id, product_id) came earlier
DropDuplicateKeys(j) ==
    LET first(i) == \A k \in 1..(i - 1) :
                       ~(j[k].customer_id = j[i].customer_id /\ j[k].product_id = j[i].product_id)
        keep == {i \in 1..Len(j) : first(i)}
        idx == SortedSeq(keep, [i \in keep |-> i])
    IN [n \in 1..Len(idx) |-> j[idx[n]]]

\* etl_sales with (customer_id, product_id) enforced as a unique key
EtlSalesUniqueKey(st) ==
    IF ~(CanLoad(st, "bronze_orders") /\ CanLoad(st, "bronze_customers")
         /\ CanLoad(st, "bronze_weather"))
    THEN Raise(st)
    ELSE LET df == InnerJoin(load_from_db(st, "bronze_orders"),
                             load_from_db(st, "bronze_customers"),
                             load_from_db(st, "bronze_weather"))
         IN Return(write_to_db(st, "silver_sales", DropDuplicateKeys(df)))

\* etl_sales with a left join on bronze_weather: orders of customers with no
\* weather row are kept, with a NULL description
EtlSalesLeftJoinWeather(st) ==
    IF ~(CanLoad(st, "bronze_orders") /\ CanLoad(st, "bronze_customers")
         /\ CanLoad(st, "bronze_weather"))
    THEN Raise(st)
    ELSE LET orders == load_from_db(st, "bronze_orders")
             customers == load_from_db(st, "bronze_customers")
             weather == load_from_db(st, "bronze_weather")
             hasWeather(o) == \E i \in 1..Len(weather) : weather[i].customer_id = o.customer_id
             nulls(o) == [customer_id |-> o.customer_id, weather_description |-> "NULL"]
             perOrder(o) == IF hasWeather(o) THEN InnerJoin(<<o>>, customers, weather)
                            ELSE InnerJoin(<<o>>, customers, <<nulls(o)>>)
         IN Return(write_to_db(st, "silver_sales",
                               FlatMap(orders, [o \in Range(orders) |-> perOrder(o)])))

EtlSales(st) ==
    IF ~(CanLoad(st, "bronze_orders") /\ CanLoad(st, "bronze_customers")
         /\ CanLoad(st, "bronze_weather"))
    THEN Raise(st)
    ELSE LET df == InnerJoin(load_from_db(st, "bronze_orders"),
                             load_from_db(st, "bronze_customers"),
                             load_from_db(st, "bronze_weather"))
         IN Return(write_to_db(st, "silver_sales", df))

(***************************************************************************)
(* Gold layer.  groupby sorts the groups by key (sort=True, pandas'        *)
(* default); sort_values leaves equal keys in the order it finds them, as  *)
(* numpy's quicksort does on the short arrays of this model.               *)
(***************************************************************************)
\* df["total_sales"] = df["quantity"] * df["price"]
WithTotalSales(df) ==
    [i \in 1..Len(df) |-> [total_sales |-> df[i].quantity * df[i].price] @@ df[i]]

\* the distinct values of column col, ascending
GroupKeys(df, col) ==
    LET S == {df[i][col] : i \in 1..Len(df)}
    IN SortedSeq(S, [k \in S |-> k])

Group(df, col, k) == SelectSeq(df, LAMBDA r : r[col] = k)

Mean(s) ==
    LET g == GCD(SumSeq(s), Len(s))
    IN [num |-> SumSeq(s) \div g, den |-> Len(s) \div g]

\* df.sort_values(by=col, ascending=True): row j comes before row i
SortValuesAscending(df, col) ==
    LET before(j, i) == df[j][col] < df[i][col] \/ (df[j][col] = df[i][col] /\ j < i)
    IN [k \in 1..Len(df) |->
           df[CHOOSE i \in 1..Len(df) :
                 Cardinality({j \in 1..Len(df) : before(j, i)}) = k - 1]]

\* df.sort_values(by=col, ascending=False): row j comes before row i
SortValuesDescending(df, col) ==
    LET before(j, i) == df[j][col] > df[i][col] \/ (df[j][col] = df[i][col] /\ j < i)
    IN [k \in 1..Len(df) |->
           df[CHOOSE i \in 1..Len(df) :
                 Cardinality({j \in 1..Len(df) : before(j, i)}) = k - 1]]

\* process_total_sales with the quantity summed instead of quantity * price
ProcessTotalSalesQuantityOnly(st) ==
    IF ~CanLoad(st, "silver_sales") THEN Raise(st)
    ELSE LET df == load_from_db(st, "silver_sales")
             keys == GroupKeys(df, "customer_id")
             out == [i \in 1..Len(keys) |->
                        [customer_id |-> keys[i],
                         total_sales |-> SumSeq(Column(Group(df, "customer_id", keys[i]), "quantity"))]]
         IN Return(write_to_db(st, "gold_total_sales_by_customer", out))

ProcessTotalSales(st) ==
    IF ~CanLoad(st, "silver_sales") THEN Raise(st)
    ELSE LET df == WithTotalSales(load_from_db(st, "silver_sales"))
             keys == GroupKeys(df, "customer_id")
             out == [i \in 1..Len(keys) |->
                        [customer_id |-> keys[i],
                         total_sales |-> SumSeq(Column(Group(df, "customer_id", keys[i]), "total_sales"))]]
         IN Return(write_to_db(st, "gold_total_sales_by_customer", out))

ProcessAvgOrderQuantity(st) ==
    IF ~CanLoad(st, "silver_sales") THEN Raise(st)
    ELSE LET df == load_from_db(st, "silver_sales")
             keys == GroupKeys(df, "product_id")
             out == [i \in 1..Len(keys) |->
                        [product_id |-> keys[i],
                         quantity |-> Mean(Column(Group(df, "product_id", keys[i]), "quantity"))]]
         IN Return(write_to_db(st, "gold_avg_order_quantity_per_product", out))

\* df.groupby(["product_id"]).agg({"quantity": "sum"}).reset_index()
QuantityPerProduct(df) ==
    LET keys == GroupKeys(df, "product_id")
    IN [i \in 1..Len(keys) |->
           [product_id |-> keys[i],
            quantity |-> SumSeq(Column(Group(df, "product_id", keys[i]), "quantity"))]]

\* process_top_selling_products with ascending=True
ProcessTopSellingProductsAscending(st) ==
    IF ~CanLoad(st, "silver_sales") THEN Raise(st)
    ELSE Return(write_to_db(st, "gold_top_selling_products",
            SortValuesAscending(QuantityPerProduct(load_from_db(st, "silver_sales")), "quantity")))

ProcessTopSellingProducts(st) ==
    IF ~CanLoad(st, "silver_sales") THEN Raise(st)
    ELSE Return(write_to_db(st, "gold_top_selling_products",
            SortValuesDescending(QuantityPerProduct(load_from_db(st, "silver_sales")), "quantity")))

ProcessTopSellingCustomers(st) ==
    IF ~CanLoad(st, "silver_sales") THEN Raise(st)
    ELSE LET df == load_from_db(st, "silver_sales")
             keys == GroupKeys(df, "customer_id")
             out == [i \in 1..Len(keys) |->
                        [customer_id |-> keys[i],
                         quantity |-> SumSeq(Column(Group(df, "customer_id", keys[i]), "quantity"))]]
         IN Return(write_to_db(st, "gold_top_selling_customers",
                               SortValuesDescending(out, "quantity")))

\* a calendar date pd.to_datetime accepts
IsDate(d) ==
    LET leap == (d[1] % 4 = 0 /\ d[1] % 100 # 0) \/ d[1] % 400 = 0
        days == <<31, IF leap THEN 29 ELSE 28, 31, 30, 31, 30, 31, 31, 30, 31, 30, 31>>
    IN d[2] \in 1..12 /\ d[3] >= 1 /\ d[3] <= days[d[2]]

\* .dt.year, .dt.month, .dt.quarter
WithOrderPeriod(df) ==
    [i \in 1..Len(df) |->
        [order_year |-> df[i].order_date[1], order_month |-> df[i].order_date[2],
         order_quarter |-> ((df[i].order_date[2] - 1) \div 3) + 1] @@ df[i]]

\* groupby(["order_year", period]).agg({"quantity": "sum", "total_sales": "sum"})
SalesTrends(df, period) ==
    LET S == {<<df[i].order_year, df[i][period]>> : i \in 1..Len(df)}
        keys == SortedSeq(S, [k \in S |-> k[1] * 100 + k[2]])
        grp(k) == SelectSeq(df, LAMBDA r : r.order_year = k[1] /\ r[period] = k[2])
    IN [i \in 1..Len(keys) |->
           [year |-> keys[i][1], period |-> keys[i][2],
            quantity |-> SumSeq(Column(grp(keys[i]), "quantity")),
            total_sales |-> SumSeq(Column(grp(keys[i]), "total_sales"))]]

\* process_sales_trends_monthly that writes its frame before it parses the dates
ProcessSalesTrendsMonthlyWriteFirst(st) ==
    IF ~CanLoad(st, "silver_sales") THEN Raise(st)
    ELSE LET df == WithTotalSales(load_from_db(st, "silver_sales"))
             written == write_to_db(st, "gold_sales_trends_monthly", df)
         IN IF \E i \in 1..Len(df) : ~IsDate(df[i].order_date) THEN Raise(written)
            ELSE Return(write_to_db(written, "gold_sales_trends_monthly",
                                    SalesTrends(WithOrderPeriod(df), "order_month")))

ProcessSalesTrendsMonthly(st) ==
    IF ~CanLoad(st, "silver_sales") THEN Raise(st)
    ELSE LET df == WithTotalSales(load_from_db(st, "silver_sales"))
         IN IF \E i \in 1..Len(df) : ~IsDate(df[i].order_date) THEN Raise(st)
            ELSE Return(write_to_db(st, "gold_sales_trends_monthly",
                                    SalesTrends(WithOrderPeriod(df), "order_month")))

ProcessSalesTrendsQuarterly(st) ==
    IF ~CanLoad(st, "silver_sales") THEN Raise(st)
    ELSE LET df == WithTotalSales(load_from_db(st, "silver_sales"))
         IN IF \E i \in 1..Len(df) : ~IsDate(df[i].order_date) THEN Raise(st)
            ELSE Return(write_to_db(st, "gold_sales_trends_quarterly",
                                    SalesTrends(WithOrderPeriod(df), "order_quarter")))

\* groupby drops the rows whose key is NULL
ProcessSalesPerWeatherCondition(st) ==
    IF ~CanLoad(st, "silver_sales") THEN Raise(st)
    ELSE LET df == WithTotalSales(load_from_db(st, "silver_sales"))
             pos == {n \in 1..Len(WeatherDescriptions) :
                        \E i \in 1..Len(df) : df[i].weather_description = WeatherDescriptions[n]}
             keys == SortedSeq(pos, [n \in pos |-> n])
             out == [i \in 1..Len(keys) |->
                        [weather_description |-> WeatherDescriptions[keys[i]],
                         total_sales |-> Mean(Column(Group(df, "weather_description",
                                                           WeatherDescriptions[keys[i]]),
                                                     "total_sales"))]]
         IN Return(write_to_db(st, "gold_sales_per_weather_condition", out))

(***************************************************************************)
(* The Task Graph: the DAG 'sales_pipeline' and Airflow's scheduling of    *)
(* its task instances (trigger rule all_success, no retries: the           *)
(* PythonOperators are declared with the defaults).                        *)
(***************************************************************************)
Aggregators == <<"process_total_sales", "process_avg_order_quantity",
                 "process_top_selling_products", "process_top_selling_customers",
                 "process_sales_trends_monthly", "process_sales_trends_quarterly",
                 "process_sales_per_weather_condition">>

\* the task ids, in the order the operators are declared
TaskOrder == <<"test_connection", "extract_customer_from_api", "extract_weather_from_api",
               "load_orders_csv_file", "etl_sales">> \o Aggregators

Tasks == Range(TaskOrder)

\* a >> b: b is downstream of a
Edges == {<<"test_connection", "extract_customer_from_api">>,
          <<"extract_customer_from_api", "extract_weather_from_api">>,
          <<"extract_weather_from_api", "load_orders_csv_file">>,
          <<"load_orders_csv_file", "etl_sales">>}
         \cup {<<"etl_sales", a>> : a \in Range(Aggregators)}

Upstream(t) == {u \in Tasks : <<u, t>> \in Edges}

python_callable(t, st) ==
    CASE t = "test_connection" -> TestConnection(st)
      [] t = "extract_customer_from_api" -> FetchTransformWrite(st)
      [] t = "extract_weather_from_api" -> FetchWeather(st)
      [] t = "load_orders_csv_file" -> LoadCsv(st)
      [] t = "etl_sales" -> EtlSales(st)
      [] t = "process_total_sales" -> ProcessTotalSales(st)
      [] t = "process_avg_order_quantity" -> ProcessAvgOrderQuantity(st)
      [] t = "process_top_selling_products" -> ProcessTopSellingProducts(st)
      [] t = "process_top_selling_customers" -> ProcessTopSellingCustomers(st)
      [] t = "process_sales_trends_monthly" -> ProcessSalesTrendsMonthly(st)
      [] t = "process_sales_trends_quarterly" -> ProcessSalesTrendsQuarterly(st)
      [] t = "process_sales_per_weather_condition" -> ProcessSalesPerWeatherCondition(st)

\* what a callable needs of the environment: the store, which it connects to
\* when it loads and when it writes (a refused connection leaves the tables
\* alone), and for the three extractors the source they fetch from
EnvFaults(t) ==
    {"storage unavailable"}
    \cup (IF t \in {"extract_customer_from_api", "extract_weather_from_api",
                    "load_orders_csv_file"}
          THEN {"source unavailable"} ELSE {})

\* trigger rule all_done: every upstream task has ended, however
EligibleAllDone(t) ==
    /\ triggered
    /\ state[t] = "none"
    /\ \A u \in Upstream(t) : state[u] # "none"

\* a scheduler that starts nothing more in a run once a task of it has failed
EligibleFailFast(t) ==
    /\ triggered
    /\ state[t] = "none"
    /\ \A u \in Upstream(t) : state[u] = "success"
    /\ \A u \in Tasks : state[u] # "failed"

\* a scheduler that never finds etl_sales ready
EligibleButEtlSales(t) ==
    /\ triggered
    /\ state[t] = "none"
    /\ \A u \in Upstream(t) : state[u] = "success"
    /\ t # "etl_sales"

\* trigger rule all_success
Eligible(t) ==
    /\ triggered
    /\ state[t] = "none"
    /\ \A u \in Upstream(t) : state[u] = "success"

\* the scheduler starts task t and its callable runs to its end
RunTask(t) ==
    /\ Eligible(t)
    /\ \E fault \in EnvFaults(t) \cup {"none"} :
          LET r == IF fault = "none" THEN python_callable(t, store) ELSE Raise(store)
          IN /\ fault # "none" => faultsLeft > 0
             /\ faultsLeft' = IF fault = "none" THEN faultsLeft ELSE faultsLeft - 1
             /\ store' = r.store
             /\ state' = [state EXCEPT ![t] = IF r.ok THEN "success" ELSE "failed"]
             /\ execs' = [execs EXCEPT ![t] = @ + 1]
    /\ UNCHANGED <<apiUsers, weatherOK, orderFile, triggered, prev>>

\* the tasks a pass of the scheduler finds with a failed upstream task
Blocked ==
    {t \in Tasks : /\ state[t] = "none"
                   /\ \E u \in Upstream(t) : state[u] \in {"failed", "upstream_failed"}}

\* a task with a failed upstream task is never run: the pass marks it
MarkUpstreamFailed ==
    /\ triggered
    /\ Blocked # {}
    /\ state' = [t \in Tasks |-> IF t \in Blocked THEN "upstream_failed" ELSE state[t]]
    /\ UNCHANGED <<apiUsers, weatherOK, orderFile, store, triggered, faultsLeft, execs, prev>>

RunDone == triggered /\ \A t \in Tasks : state[t] # "none"

AllSuccess == triggered /\ \A t \in Tasks : state[t] = "success"

NoPrev == [ok |-> FALSE, gold |-> [g \in GoldTables |-> NoTable]]

\* the DAG is triggered by hand (schedule_interval=None), here once the run
\* before has ended
Trigger ==
    /\ ~triggered \/ RunDone
    /\ triggered' = TRUE
    /\ state' = [t \in Tasks |-> "none"]
    /\ execs' = [t \in Tasks |-> 0]
    /\ prev' = IF AllSuccess THEN [ok |-> TRUE, gold |-> [g \in GoldTables |-> store[g]]]
               ELSE NoPrev
    /\ UNCHANGED <<apiUsers, weatherOK, orderFile, store, faultsLeft>>

(***************************************************************************)
(* Sources and specifications.                                             *)
(***************************************************************************)
Order(c, p, q, d) ==
    [customer_id |-> c, product_id |-> p, quantity |-> q, price |-> UnitPrice[p],
     order_date |-> d]

OrderRows(dates) ==
    {Order(c, p, q, d) : c \in Customers, p \in Products, q \in Quantities, d \in dates}

OrderFiles(rows, n) == UNION {[1..k -> rows] : k \in 0..n}

\* two order files: one dated in two quarters, one with the same order line
\* twice and a date that is none
SampleOrderFiles ==
    {<<Order(1, 2, 1, GoodDate), Order(2, 1, 2, LateDate)>>,
     <<Order(1, 1, 1, GoodDate), Order(1, 1, 2, BadDate)>>}

Idle ==
    /\ store = [tb \in Tables |-> NoTable]
    /\ state = [t \in Tasks |-> "none"]
    /\ triggered = FALSE
    /\ execs = [t \in Tasks |-> 0]
    /\ prev = NoPrev

\* the DAG's runs under an environment with up to MaxFaults outages
Init ==
    /\ apiUsers \in SUBSET Customers
    /\ weatherOK \in SUBSET Customers
    /\ orderFile \in SampleOrderFiles
    /\ faultsLeft = MaxFaults
    /\ Idle

Next ==
    \/ Trigger
    \/ \E t \in Tasks : RunTask(t)
    \/ MarkUpstreamFailed

Spec == Init /\ [][Next]_vars

\* a pass of the scheduler over the run's task instances
Schedule == (\E t \in Tasks : RunTask(t)) \/ MarkUpstreamFailed

\* the runs with both sources answering for every customer
InitFair ==
    /\ apiUsers = Customers
    /\ weatherOK = Customers
    /\ orderFile \in SampleOrderFiles
    /\ faultsLeft = MaxFaults
    /\ Idle

\* the scheduler goes on passing over the run while a task can be run or marked
FairSpec == InitFair /\ [][Next]_vars /\ WF_vars(Schedule)

\* one run of the DAG, the tasks one at a time in the order they are declared,
\* over every order file of up to MaxOrders rows
InitData ==
    /\ apiUsers \in SUBSET Customers
    /\ weatherOK \in SUBSET Customers
    /\ orderFile \in OrderFiles(OrderRows({GoodDate}), MaxOrders)
    /\ faultsLeft = 0
    /\ Idle

IsNextInOrder(t) ==
    \E i \in 1..Len(TaskOrder) :
        /\ TaskOrder[i] = t
        /\ \A k \in 1..(i - 1) : state[TaskOrder[k]] # "none"

NextData ==
    \/ ~triggered /\ Trigger
    \/ \E t \in Tasks : IsNextInOrder(t) /\ RunTask(t)
    \/ MarkUpstreamFailed

SpecData == InitData /\ [][NextData]_vars

(***************************************************************************)
(* Properties.                                                             *)
(***************************************************************************)
Extractors == {"extract_customer_from_api", "extract_weather_from_api", "load_orders_csv_file"}

Started(t) == execs'[t] = execs[t] + 1

Silver == store["silver_sales"].rows

RECURSIVE SumOver(_, _)
\* the sum of f[i] over the i in S
SumOver(S, f) ==
    IF S = {} THEN 0
    ELSE LET i == CHOOSE x \in S : TRUE IN f[i] + SumOver(S \ {i}, f)

Count(rows, P(_)) == Cardinality({i \in 1..Len(rows) : P(rows[i])})

\* C1: a task starts only after every task upstream of it has succeeded:
\* etl_sales only after the three extractors of the run, a process_* task only
\* after etl_sales.
StartsAfterUpstreamSucceeded ==
    [][\A t \in Tasks : Started(t) =>
          /\ \A u \in Tasks : <<u, t>> \in Edges => state[u] = "success"
          /\ t = "etl_sales" => \A u \in Extractors : state[u] = "success"
          /\ t \in Range(Aggregators) => state["etl_sales"] = "success"]_vars

StartsAfterUpstreamSucceededWitness ==
    /\ state["etl_sales"] = "success"
    /\ execs["etl_sales"] = 1
    /\ state["process_top_selling_products"] = "success"
    /\ state["process_total_sales"] = "none"

\* C2 as stated: once etl_sales has succeeded, a customer is in silver_sales
\* iff it has a row in bronze_customers and a row in bronze_weather.
JoinExclusivityWithoutOrders ==
    state["etl_sales"] = "success" =>
        \A c \in Customers :
            Count(Silver, LAMBDA r : r.customer_id = c) > 0
            <=> /\ Count(store["bronze_customers"].rows, LAMBDA r : r.id = c) > 0
                /\ Count(store["bronze_weather"].rows, LAMBDA r : r.customer_id = c) > 0

\* C2 amended: once etl_sales has succeeded, a customer is in silver_sales iff
\* it has a row in bronze_orders, in bronze_customers and in bronze_weather.
JoinExclusivity ==
    state["etl_sales"] = "success" =>
        \A c \in Customers :
            Count(Silver, LAMBDA r : r.customer_id = c) > 0
            <=> /\ Count(store["bronze_orders"].rows, LAMBDA r : r.customer_id = c) > 0
                /\ Count(store["bronze_customers"].rows, LAMBDA r : r.id = c) > 0
                /\ Count(store["bronze_weather"].rows, LAMBDA r : r.customer_id = c) > 0

\* customer 1 is joined, customer 2 has orders and a customer row and no weather
JoinExclusivityWitness ==
    /\ state["etl_sales"] = "success"
    /\ Count(Silver, LAMBDA r : r.customer_id = 1) > 0
    /\ Count(store["bronze_orders"].rows, LAMBDA r : r.customer_id = 2) > 0
    /\ Count(store["bronze_customers"].rows, LAMBDA r : r.id = 2) > 0
    /\ Count(store["bronze_weather"].rows, LAMBDA r : r.customer_id = 2) = 0

RECURSIVE Closure(_)
Closure(S) ==
    LET N == S \cup {v \in Tasks : \E u \in S : <<u, v>> \in Edges}
    IN IF N = S THEN S ELSE Closure(N)

\* the tasks that depend on t, directly or not
Dependents(t) == Closure({v \in Tasks : <<t, v>> \in Edges})

AllDatesValid == \A i \in 1..Len(Silver) : IsDate(Silver[i].order_date)

\* C3: no dependent of a failed task is started in the run, and a task whose
\* upstream tasks have succeeded is ready to run whatever has failed beside it
\* (RunTask(a) is enabled exactly when Eligible(a) holds): a process_* task
\* is ready, and its callable succeeds on valid dates, whichever of the other
\* six failed.
FailureHaltsOnlyItsBranch ==
    /\ \A t \in Tasks : state[t] = "failed" =>
          \A u \in Dependents(t) : execs[u] = 0 /\ state[u] \in {"none", "upstream_failed"}
    /\ \A a \in Range(Aggregators) :
          (triggered /\ state["etl_sales"] = "success" /\ state[a] = "none") =>
              /\ Eligible(a)
              /\ AllDatesValid => python_callable(a, store).ok

FailureHaltsOnlyItsBranchWitness ==
    /\ state["process_total_sales"] = "failed"
    /\ state["process_top_selling_products"] = "success"
    /\ state["process_avg_order_quantity"] = "none"
    /\ AllDatesValid

\* C4: whichever lookups fail, fetch_weather succeeds and bronze_weather holds
\* one row for each customer of bronze_customers whose lookup succeeded and
\* none for the others.
WeatherLookupFailuresTolerated ==
    (state["extract_customer_from_api"] = "success" /\ execs["extract_weather_from_api"] = 1) =>
        /\ state["extract_weather_from_api"] = "success"
        /\ \A c \in Customers :
              Count(store["bronze_weather"].rows, LAMBDA r : r.customer_id = c)
              = IF c \in weatherOK
                   /\ Count(store["bronze_customers"].rows, LAMBDA r : r.id = c) > 0
                THEN 1 ELSE 0

\* the table each task writes
OutputTable(t) ==
    CASE t = "extract_customer_from_api" -> "bronze_customers"
      [] t = "extract_weather_from_api" -> "bronze_weather"
      [] t = "load_orders_csv_file" -> "bronze_orders"
      [] t = "etl_sales" -> "silver_sales"
      [] t = "process_total_sales" -> "gold_total_sales_by_customer"
      [] t = "process_avg_order_quantity" -> "gold_avg_order_quantity_per_product"
      [] t = "process_top_selling_products" -> "gold_top_selling_products"
      [] t = "process_top_selling_customers" -> "gold_top_selling_customers"
      [] t = "process_sales_trends_monthly" -> "gold_sales_trends_monthly"
      [] t = "process_sales_trends_quarterly" -> "gold_sales_trends_quarterly"
      [] t = "process_sales_per_weather_condition" -> "gold_sales_per_weather_condition"
      [] OTHER -> "none"

Idempotence ==
    (prev.ok /\ AllSuccess) => \A g \in GoldTables : store[g] = prev.gold[g]

IdempotenceWitness ==
    /\ prev.ok
    /\ AllSuccess
    /\ Len(store["gold_top_selling_products"].rows) = 2
    /\ Len(Silver) = 2

\* C7: once process_total_sales has succeeded, gold_total_sales_by_customer
\* holds one row for each customer_id of silver_sales and no other, with the
\* sum of quantity * price over all of the customer's rows.
TotalSalesPerCustomer ==
    state["process_total_sales"] = "success" =>
        LET g == store["gold_total_sales_by_customer"].rows
            rowsOf(c) == {j \in 1..Len(Silver) : Silver[j].customer_id = c}
            amount == [j \in 1..Len(Silver) |-> Silver[j].quantity * Silver[j].price]
        IN /\ \A j \in 1..Len(Silver) :
                 Count(g, LAMBDA r : r.customer_id = Silver[j].customer_id) = 1
           /\ \A i \in 1..Len(g) :
                 /\ rowsOf(g[i].customer_id) # {}
                 /\ g[i].total_sales = SumOver(rowsOf(g[i].customer_id), amount)

\* a customer with two rows of the same product
TotalSalesPerCustomerWitness ==
    /\ state["process_total_sales"] = "success"
    /\ \E i, j \in 1..Len(Silver) :
          /\ i < j
          /\ Silver[i].customer_id = Silver[j].customer_id
          /\ Silver[i].product_id = Silver[j].product_id
    /\ \E i \in 1..Len(Silver) : Silver[i].customer_id = 2

NonIncreasing(g) == \A i \in 1..(Len(g) - 1) : g[i].quantity >= g[i + 1].quantity

\* the first row of silver_sales with product p
FirstSeen(p) == CHOOSE j \in 1..Len(Silver) :
                    /\ Silver[j].product_id = p
                    /\ \A k \in 1..(j - 1) : Silver[k].product_id # p

\* C8 as stated: the rows of gold_top_selling_products are in non-increasing
\* order of summed quantity, products with equal sums in the order in which
\* they are first met in silver_sales.
TopSellingTiesInEncounterOrder ==
    state["process_top_selling_products"] = "success" =>
        LET g == store["gold_top_selling_products"].rows
        IN /\ NonIncreasing(g)
           /\ \A i \in 1..(Len(g) - 1) : g[i].quantity = g[i + 1].quantity =>
                 FirstSeen(g[i].product_id) < FirstSeen(g[i + 1].product_id)

\* C8 amended: the rows are in non-increasing order of summed quantity, one
\* row for each product_id of silver_sales with the sum of its quantities;
\* products with equal sums are in ascending order of product_id.
TopSellingProductsSorted ==
    state["process_top_selling_products"] = "success" =>
        LET g == store["gold_top_selling_products"].rows
            rowsOf(p) == {j \in 1..Len(Silver) : Silver[j].product_id = p}
            qty == [j \in 1..Len(Silver) |-> Silver[j].quantity]
        IN /\ NonIncreasing(g)
           /\ \A j \in 1..Len(Silver) :
                 Count(g, LAMBDA r : r.product_id = Silver[j].product_id) = 1
           /\ \A i \in 1..Len(g) :
                 /\ rowsOf(g[i].product_id) # {}
                 /\ g[i].quantity = SumOver(rowsOf(g[i].product_id), qty)
           /\ \A i \in 1..(Len(g) - 1) : g[i].quantity = g[i + 1].quantity =>
                 g[i].product_id < g[i + 1].product_id

\* two products with equal sums, the one with the greater id met first
TopSellingProductsSortedWitness ==
    /\ state["process_top_selling_products"] = "success"
    /\ Len(store["gold_top_selling_products"].rows) = 2
    /\ store["gold_top_selling_products"].rows[1].quantity
       = store["gold_top_selling_products"].rows[2].quantity
    /\ Silver[1].product_id = 2

PairCount(rows, c, p) == Count(rows, LAMBDA r : r.customer_id = c /\ r.product_id = p)

\* C9 as stated: silver_sales never holds two rows with the same
\* (customer_id, product_id).
SilverKeyUnique ==
    state["etl_sales"] = "success" =>
        \A c \in Customers, p \in Products : PairCount(Silver, c, p) <= 1

\* C9 amended: silver_sales holds a row for every row of bronze_orders whose
\* customer is joined: as many rows with a given (customer_id, product_id)
\* as bronze_orders has, times the customer's rows in bronze_customers and in
\* bronze_weather (one each, or none).
SilverKeepsEveryOrderLine ==
    state["etl_sales"] = "success" =>
        \A c \in Customers, p \in Products :
            PairCount(Silver, c, p)
            = PairCount(store["bronze_orders"].rows, c, p)
              * Count(store["bronze_customers"].rows, LAMBDA r : r.id = c)
              * Count(store["bronze_weather"].rows, LAMBDA r : r.customer_id = c)

SilverKeepsEveryOrderLineWitness ==
    /\ state["etl_sales"] = "success"
    /\ \E c \in Customers, p \in Products : PairCount(Silver, c, p) = 2

\* C10: with no task failing, a triggered run comes to have all twelve tasks
\* succeeded, each run once and after the tasks upstream of it, and then runs
\* no task more.
RunCompletes ==
    /\ [](triggered => <>(AllSuccess \/ \E t \in Tasks : state[t] = "failed"))
    /\ [](\A t \in Tasks : execs[t] <= 1)
    /\ [](AllSuccess => Cardinality(Tasks) = 12 /\ \A t \in Tasks : execs[t] = 1)
    /\ [][\A t \in Tasks : Started(t) =>
             \A u \in Tasks : <<u, t>> \in Edges => execs[u] = 1 /\ state[u] = "success"]_vars
    /\ [][AllSuccess => \A t \in Tasks : ~Started(t)]_vars

RunCompletesWitness ==
    /\ AllSuccess
    /\ \A t \in Tasks : execs[t] = 1
    /\ prev.ok

=============================================================================
